---- MODULE Spec2Model ----
(***************************************************************************)
(* Model of deepctr/models/dien.py.                                        *)
(*                                                                         *)
(* Two specifications share the module:                                    *)
(*   Spec      graph construction: DIEN -> interest_evolution, one action  *)
(*             per block of statements, for two calls that run side by     *)
(*             side and differ only in use_neg / the negative sequence;    *)
(*   SpecLoss  evaluation of the auxiliary loss (auxiliary_loss, as it is  *)
(*             called from interest_evolution) on one concrete batch.      *)
(***************************************************************************)
EXTENDS Integers, Sequences, FiniteSets, TLC

VARIABLES run, batch

vars == <<run, batch>>

(***************************************************************************)
(* Symbolic tensors: the layer or op that produced the tensor, applied to  *)
(* its input tensors. Python's None is the leaf NoneT.                     *)
(***************************************************************************)
T(op, args) == [op |-> op, args |-> args]

Leaf(name) == T(name, <<>>)

NoneT == Leaf("None")

\* A layer object created in the graph, with the options the code passes.
Layer(kind, name, type, weight_normalization, returns) ==
    [kind |-> kind, name |-> name, type |-> type,
     weight_normalization |-> weight_normalization, returns |-> returns]

Runs == {1, 2}

ValidGruTypes == {"GRU", "AIGRU", "AGRU", "AUGRU"}

\* The variants a caller may pass: the four valid ones and an unknown name.
GruTypes == ValidGruTypes \cup {"LSTM"}

Entries == {"DIEN", "interest_evolution"}

\* att_weight_normalization as the caller passes it: left out, True or False.
NormArgs == {"default", "True", "False"}

\* The negative behaviour sequence fed to the call: none, or one of two samples.
NegData == {"None", "negA", "negB"}

\* The default of att_weight_normalization in each signature.
DefaultAttWeightNormalization(entry) ==
    IF entry = "DIEN" THEN "True" ELSE "False"

ResolveNorm(entry, arg) ==
    IF arg = "default" THEN DefaultAttWeightNormalization(entry) ELSE arg

(***************************************************************************)
(* The state of one call before its first statement.                       *)
(***************************************************************************)
InitRun(entry, gru_type, norm_arg, use_neg, neg) ==
    [entry |-> entry,
     gru_type |-> gru_type,
     use_neg |-> use_neg,
     neg_data |-> neg,
     norm_arg |-> norm_arg,
     att_weight_normalization |-> ResolveNorm(entry, norm_arg),
     pc |-> IF entry = "DIEN" THEN "dien_get_input" ELSE "ie_check",
     layers |-> <<>>,
     concat_behavior |-> IF entry = "DIEN" THEN NoneT ELSE Leaf("concat_behavior"),
     deep_input_item |-> IF entry = "DIEN" THEN NoneT ELSE Leaf("deep_input_item"),
     user_behavior_length |-> IF entry = "DIEN" THEN NoneT ELSE Leaf("user_behavior_length"),
     neg_concat_behavior |-> IF entry = "DIEN" \/ neg = "None" THEN NoneT ELSE Leaf(neg),
     rnn_outputs |-> NoneT,
     aux_loss_1 |-> NoneT,
     scores |-> NoneT,
     hist |-> NoneT,
     losses |-> {},
     err |-> "None"]

\* DIEN builds the negative sequence itself, exactly when use_negsampling is set;
\* a direct caller of interest_evolution passes any combination.
NegChoices(entry, use_neg) ==
    IF entry = "DIEN"
    THEN (IF use_neg THEN {"negA", "negB"} ELSE {"None"})
    ELSE NegData

InitBuild ==
    \E entry \in Entries, g \in GruTypes, n \in NormArgs :
      \E u1 \in BOOLEAN, u2 \in BOOLEAN :
        \E d1 \in NegChoices(entry, u1), d2 \in NegChoices(entry, u2) :
          run = [i \in Runs |->
                   IF i = 1 THEN InitRun(entry, g, n, u1, d1)
                            ELSE InitRun(entry, g, n, u2, d2)]


(***************************************************************************)
(* interest_evolution, statement block by statement block. Each operator   *)
(* maps the call's state r to its state after the block.                   *)
(***************************************************************************)
Raise(r, error) == [r EXCEPT !.pc = "raised", !.err = error]

\* IE_Check with a fault: the variant is validated only after the first GRU exists.
IE_CheckAfterGru1(r) ==
    IF r.gru_type \notin ValidGruTypes
    THEN Raise([r EXCEPT !.layers = Append(@, Layer("DynamicGRU", "gru1", "GRU", "-", "sequence"))],
               "ValueError: gru_type error ")
    ELSE [r EXCEPT !.pc = "ie_gru1"]

\* if gru_type not in [...]: raise ValueError("gru_type error ")
IE_Check(r) ==
    IF r.gru_type \notin ValidGruTypes
    THEN Raise(r, "ValueError: gru_type error ")
    ELSE [r EXCEPT !.pc = "ie_gru1"]

\* Gru1Inputs with a fault: the negative sequence is fed to gru1 when it is used.
Gru1InputsWithNegatives(r) ==
    IF r.use_neg /\ r.neg_concat_behavior # NoneT
    THEN <<r.neg_concat_behavior, r.user_behavior_length>>
    ELSE <<r.concat_behavior, r.user_behavior_length>>

\* The inputs of the first recurrent pass: [concat_behavior, user_behavior_length].
Gru1Inputs(r) == <<r.concat_behavior, r.user_behavior_length>>

\* aux_loss_1 = None; rnn_outputs = DynamicGRU(..., return_sequence=True, name="gru1")(...)
IE_Gru1(r) ==
    [r EXCEPT !.aux_loss_1 = NoneT,
              !.layers = Append(@, Layer("DynamicGRU", "gru1", "GRU", "-", "sequence")),
              !.rnn_outputs = T("gru1", Gru1Inputs(r)),
              !.pc = "ie_aux"]

\* The four layers auxiliary_net creates (or reuses) under the name suffix stag.
AuxiliaryNetLayers ==
    <<Layer("batch_normalization", "bn1gru", "-", "-", "-"),
      Layer("dense", "f1gru", "-", "-", "-"),
      Layer("dense", "f2gru", "-", "-", "-"),
      Layer("dense", "f3gru", "-", "-", "-")>>

\* AuxHiddenStates with a fault: the supervised states are those of a second pass.
AuxHiddenStatesOfStage2(r) ==
    T("[:, :-1, :]", <<T("gru2", <<r.rnn_outputs, r.user_behavior_length>>)>>)

\* The first argument of auxiliary_loss: rnn_outputs[:, :-1, :].
AuxHiddenStates(r) == T("[:, :-1, :]", <<r.rnn_outputs>>)

\* auxiliary_loss(h_states, click_seq, noclick_seq, mask, stag="gru") as a graph node.
AuxiliaryLossNode(r) ==
    T("auxiliary_loss",
      <<AuxHiddenStates(r),
        T("[:, 1:, :]", <<r.concat_behavior>>),
        T("[:, 1:, :]", <<r.neg_concat_behavior>>),
        T("subtract", <<r.user_behavior_length, Leaf("1")>>)>>)

\* if gru_type == "AUGRU" and use_neg: aux_loss_1 = auxiliary_loss(...)
IE_Aux(r) ==
    IF r.gru_type = "AUGRU" /\ r.use_neg
    THEN IF r.neg_concat_behavior = NoneT
         THEN Raise(r, "TypeError: 'NoneType' object is not subscriptable")
         ELSE [r EXCEPT !.aux_loss_1 = AuxiliaryLossNode(r),
                        !.layers = @ \o AuxiliaryNetLayers,
                        !.pc = "ie_stage2"]
    ELSE [r EXCEPT !.pc = "ie_stage2"]

\* AttentionNormalization with a fault: the gate variants force normalization off.
AttentionNormalizationOffForGates(r) ==
    IF r.gru_type \in {"AGRU", "AUGRU"} THEN "False" ELSE r.att_weight_normalization

\* weight_normalization=att_weight_normalization, in both AttentionSequencePoolingLayer calls.
AttentionNormalization(r) == r.att_weight_normalization

AttentionLayer(r, returns) ==
    Layer("AttentionSequencePoolingLayer", "attention_sequence_pooling_layer", "-",
          AttentionNormalization(r), returns)

\* if gru_type == "GRU": ... else: (AIGRU) ... else: (AGRU, AUGRU) ...; hist is set.
IE_Stage2(r) ==
    IF r.gru_type = "GRU"
    THEN LET rnn_outputs2 == T("gru2", <<r.rnn_outputs, r.user_behavior_length>>)
         IN  [r EXCEPT !.layers = @ \o <<Layer("DynamicGRU", "gru2", "GRU", "-", "sequence"),
                                         AttentionLayer(r, "pooled")>>,
                       !.hist = T("attention_sequence_pooling_layer",
                                  <<r.deep_input_item, rnn_outputs2, r.user_behavior_length>>),
                       !.pc = "ie_return"]
    ELSE LET scores == T("attention_sequence_pooling_layer",
                         <<r.deep_input_item, r.rnn_outputs, r.user_behavior_length>>)
             permuted == T("Permute([2, 1])", <<scores>>)
         IN  IF r.gru_type = "AIGRU"
             THEN LET scaled == T("multiply", <<r.rnn_outputs, permuted>>)
                  IN  [r EXCEPT !.layers = @ \o <<AttentionLayer(r, "score"),
                                                  Layer("DynamicGRU", "gru2", "GRU", "-", "final_state")>>,
                                !.scores = scores,
                                !.hist = T("gru2", <<scaled, r.user_behavior_length>>),
                                !.pc = "ie_return"]
             ELSE [r EXCEPT !.layers = @ \o <<AttentionLayer(r, "score"),
                                              Layer("DynamicGRU", "gru2", r.gru_type, "-", "final_state")>>,
                            !.scores = scores,
                            !.hist = T("gru2", <<r.rnn_outputs, r.user_behavior_length, permuted>>),
                            !.pc = "ie_return"]

\* return hist, aux_loss_1: to the direct caller, or back into DIEN.
IE_Return(r) ==
    [r EXCEPT !.pc = IF r.entry = "DIEN" THEN "dien_head" ELSE "returned"]

(***************************************************************************)
(* DIEN, statement block by statement block. The feature dictionary is     *)
(* well formed (check_feature_config_dict passes); the sparse fields and   *)
(* the sequence fields are each stood for by one input.                    *)
(***************************************************************************)
\* check_feature_config_dict(...); get_input(...): the Input layers.
DIEN_GetInput(r) ==
    [r EXCEPT !.layers = @ \o <<Layer("Input", "sparse_input", "-", "-", "-"),
                                Layer("Input", "seq_input", "-", "-", "-"),
                                Layer("Input", "seq_length", "-", "-", "-")>>,
              !.pc = "dien_embed"]

\* sparse_embedding_dict, query_emb, keys_emb, deep_input_emb.
DIEN_Embed(r) ==
    [r EXCEPT !.layers = Append(@, Layer("Embedding", "sparse_emb", "-", "-", "-")),
              !.pc = "dien_neg"]

\* if use_negsampling: neg_user_behavior_input, neg_concat_behavior; else None.
DIEN_Neg(r) ==
    IF r.use_neg
    THEN [r EXCEPT !.layers = Append(@, Layer("Input", "neg_seq_input", "-", "-", "-")),
                   !.neg_concat_behavior = T("sparse_emb", <<Leaf(r.neg_data)>>),
                   !.pc = "dien_call"]
    ELSE [r EXCEPT !.neg_concat_behavior = NoneT, !.pc = "dien_call"]

\* hist, aux_loss_1 = interest_evolution(keys_emb, query_emb, user_behavior_length, ...)
DIEN_Call(r) ==
    [r EXCEPT !.concat_behavior = T("sparse_emb", <<Leaf("seq_input")>>),
              !.deep_input_item = T("sparse_emb", <<Leaf("sparse_input")>>),
              !.user_behavior_length = Leaf("seq_length"),
              !.pc = "ie_check"]

\* Concatenate, Flatten, MLP, Dense, PredictionLayer, Model(...).
DIEN_Head(r) ==
    [r EXCEPT !.layers = @ \o <<Layer("Concatenate", "concatenate", "-", "-", "-"),
                                Layer("Flatten", "flatten", "-", "-", "-"),
                                Layer("MLP", "mlp", "-", "-", "-"),
                                Layer("Dense", "dense", "-", "-", "-"),
                                Layer("PredictionLayer", "prediction_layer", "-", "-", "-")>>,
              !.pc = "dien_add_loss"]

\* if use_negsampling: model.add_loss(alpha * aux_loss_1); return model
DIEN_AddLoss(r) ==
    IF r.use_neg
    THEN IF r.aux_loss_1 = NoneT
         THEN Raise(r, "TypeError: unsupported operand type(s) for *: 'float' and 'NoneType'")
         ELSE [r EXCEPT !.losses = @ \cup {T("mul", <<Leaf("alpha"), r.aux_loss_1>>)},
                        !.pc = "returned"]
    ELSE [r EXCEPT !.pc = "returned"]

(***************************************************************************)
(* The actions: call i executes its next block.                            *)
(***************************************************************************)
At(i, label) == run[i].pc = label

Put(i, r) == run' = [run EXCEPT ![i] = r] /\ UNCHANGED batch

StepDIENGetInput == \E i \in Runs : At(i, "dien_get_input") /\ Put(i, DIEN_GetInput(run[i]))

StepDIENEmbed == \E i \in Runs : At(i, "dien_embed") /\ Put(i, DIEN_Embed(run[i]))

StepDIENNeg == \E i \in Runs : At(i, "dien_neg") /\ Put(i, DIEN_Neg(run[i]))

StepDIENCall == \E i \in Runs : At(i, "dien_call") /\ Put(i, DIEN_Call(run[i]))

StepIECheck == \E i \in Runs : At(i, "ie_check") /\ Put(i, IE_Check(run[i]))

StepIEGru1 == \E i \in Runs : At(i, "ie_gru1") /\ Put(i, IE_Gru1(run[i]))

StepIEAux == \E i \in Runs : At(i, "ie_aux") /\ Put(i, IE_Aux(run[i]))

StepIEStage2 == \E i \in Runs : At(i, "ie_stage2") /\ Put(i, IE_Stage2(run[i]))

StepIEReturn == \E i \in Runs : At(i, "ie_return") /\ Put(i, IE_Return(run[i]))

StepDIENHead == \E i \in Runs : At(i, "dien_head") /\ Put(i, DIEN_Head(run[i]))

StepDIENAddLoss == \E i \in Runs : At(i, "dien_add_loss") /\ Put(i, DIEN_AddLoss(run[i]))

NoBatch == [phase |-> "none"]

Init == InitBuild /\ batch = NoBatch

Next ==
    \/ StepDIENGetInput
    \/ StepDIENEmbed
    \/ StepDIENNeg
    \/ StepDIENCall
    \/ StepIECheck
    \/ StepIEGru1
    \/ StepIEAux
    \/ StepIEStage2
    \/ StepIEReturn
    \/ StepDIENHead
    \/ StepDIENAddLoss

Spec == Init /\ [][Next]_vars

(***************************************************************************)
(* Evaluation of the auxiliary loss on one batch (specification SpecLoss). *)
(*                                                                         *)
(* A sequence tensor is one sequence per example; element k (from 1) is    *)
(* Python's index k - 1. An element of a behaviour tensor records which    *)
(* tensor, example and time step it is.                                    *)
(***************************************************************************)
MaxT == 3

MaxB == 2

LenSlack == 1

Elem(src, ex, step) == [src |-> src, ex |-> ex, step |-> step]

\* A [B, cap, .] tensor of the given source, cap the capacity hist_len_max.
SeqTensor(src, B, cap) == [b \in 1..B |-> [k \in 1..cap |-> Elem(src, b, k - 1)]]

\* x[:, :-1, :]
DropLast(x) == [b \in 1..Len(x) |-> SubSeq(x[b], 1, Len(x[b]) - 1)]

\* x[:, 1:, :]
DropFirst(x) == [b \in 1..Len(x) |-> SubSeq(x[b], 2, Len(x[b]))]

\* tf.subtract(user_behavior_length, 1)
SubtractOne(lengths) == [b \in 1..Len(lengths) |-> lengths[b] - 1]

\* tf.cast(tf.sequence_mask(lengths, maxlen)[:, 0, :], tf.float32):
\* entry j (Python index) of row b is 1.0 when j < lengths[b], else 0.0.
SequenceMask(lengths, maxlen) ==
    [b \in 1..Len(lengths) |-> [k \in 1..maxlen |-> IF k - 1 < lengths[b] THEN 1 ELSE 0]]

(***************************************************************************)
(* Floats: finite values in thousandths, the two infinities and NaN, with  *)
(* IEEE 754 arithmetic on them. Probabilities are in halves: 0, 1/2, 1;    *)
(* a float32 sigmoid reaches 0.0 and 1.0 exactly when its logit is far     *)
(* enough from zero.                                                       *)
(***************************************************************************)
Fin(v) == [kind |-> "finite", v |-> v]

PosInf == [kind |-> "inf", v |-> 1]

NegInf == [kind |-> "inf", v |-> -1]

NaN == [kind |-> "nan", v |-> 0]

Probs == {0, 1, 2}

\* 1.0 - p
OneMinus(p) == 2 - p

\* tf.log(p): log(0) = -inf, log(1/2) = -0.693, log(1) = 0.
Log(p) ==
    CASE p = 0 -> NegInf
      [] p = 1 -> Fin(-693)
      [] p = 2 -> Fin(0)

\* - x
Negate(x) ==
    CASE x.kind = "finite" -> Fin(-x.v)
      [] x.kind = "inf" -> [kind |-> "inf", v |-> -x.v]
      [] x.kind = "nan" -> NaN

\* x * m for a mask entry m (0.0 or 1.0): an infinity times 0.0 is NaN.
Times(x, m) ==
    CASE x.kind = "finite" -> Fin(x.v * m)
      [] x.kind = "inf" -> IF m = 0 THEN NaN ELSE x
      [] x.kind = "nan" -> NaN

\* x + y
Plus(x, y) ==
    CASE x.kind = "nan" \/ y.kind = "nan" -> NaN
      [] x.kind = "finite" /\ y.kind = "finite" -> Fin(x.v + y.v)
      [] x.kind = "inf" /\ y.kind = "finite" -> x
      [] x.kind = "finite" /\ y.kind = "inf" -> y
      [] x.kind = "inf" /\ y.kind = "inf" -> IF x.v = y.v THEN x ELSE NaN

RECURSIVE SumSeq(_)
\* The sum of a sequence of floats.
SumSeq(s) == IF s = <<>> THEN Fin(0) ELSE Plus(s[1], SumSeq(Tail(s)))

\* The sum of all entries of a matrix of floats, row by row.
SumAll(m) == SumSeq([b \in 1..Len(m) |-> SumSeq(m[b])])

\* The number of entries of a [B, n] matrix.
NumElements(m) == Len(m) * Len(m[1])

RECURSIVE SumInts(_)
SumInts(s) == IF s = <<>> THEN 0 ELSE s[1] + SumInts(Tail(s))

\* ReduceMean with a fault: the sum is divided by the number of unmasked entries.
ReduceMeanOverValid(x) ==
    [sum |-> SumAll([b \in 1..Len(x.click_loss_) |->
                       [k \in 1..Len(x.click_loss_[b]) |->
                          Plus(x.click_loss_[b][k], x.noclick_loss_[b][k])]]),
     n |-> SumInts([b \in 1..Len(x.mask) |-> SumInts(x.mask[b])])]

\* tf.reduce_mean(click_loss_ + noclick_loss_): the sum of all entries over their
\* number, kept as the pair (sum, n).
ReduceMean(x) ==
    LET total == [b \in 1..Len(x.click_loss_) |->
                    [k \in 1..Len(x.click_loss_[b]) |->
                       Plus(x.click_loss_[b][k], x.noclick_loss_[b][k])]]
    IN  [sum |-> SumAll(total), n |-> NumElements(total)]

\* AuxCall with a fault: the items are not shifted by one step.
AuxCallUnshifted(x) ==
    [x EXCEPT !.h_states = DropLast(x.rnn_outputs),
              !.click_seq = DropLast(x.concat_behavior),
              !.noclick_seq = DropLast(x.neg_concat_behavior),
              !.mask_arg = SubtractOne(x.lengths),
              !.phase = "mask"]

\* The call in interest_evolution: auxiliary_loss(rnn_outputs[:, :-1, :],
\* concat_behavior[:, 1:, :], neg_concat_behavior[:, 1:, :],
\* tf.subtract(user_behavior_length, 1), stag="gru").
AuxCall(x) ==
    [x EXCEPT !.h_states = DropLast(x.rnn_outputs),
              !.click_seq = DropFirst(x.concat_behavior),
              !.noclick_seq = DropFirst(x.neg_concat_behavior),
              !.mask_arg = SubtractOne(x.lengths),
              !.phase = "mask"]

\* hist_len, _ = click_seq.get_shape().as_list()[1:]; mask = sequence_mask(mask, hist_len)...
AuxMask(x) ==
    [x EXCEPT !.mask = SequenceMask(x.mask_arg, Len(x.click_seq[1])),
              !.phase = "net"]

\* tf.concat([h_states, seq], -1), entry by entry.
Concat(h, seq) ==
    [b \in 1..Len(h) |-> [k \in 1..Len(h[b]) |-> [h |-> h[b][k], item |-> seq[b][k]]]]

\* The classifier's outputs: bg everywhere but at entry (hb, hk), where the click
\* branch gives pc and the no-click branch gives pn.
AuxNet(x, bg, hb, hk, pc, pn) ==
    [x EXCEPT !.click_input_ = Concat(x.h_states, x.click_seq),
              !.noclick_input_ = Concat(x.h_states, x.noclick_seq),
              !.click_prop_ = [b \in 1..Len(x.h_states) |-> [k \in 1..Len(x.h_states[b]) |->
                                 IF b = hb /\ k = hk THEN pc ELSE bg]],
              !.noclick_prop_ = [b \in 1..Len(x.h_states) |-> [k \in 1..Len(x.h_states[b]) |->
                                   IF b = hb /\ k = hk THEN pn ELSE bg]],
              !.phase = "terms"]

\* click_loss_ = - log(click_prop_) * mask; noclick_loss_ = - log(1.0 - noclick_prop_) * mask
AuxTerms(x) ==
    [x EXCEPT !.click_loss_ = [b \in 1..Len(x.mask) |-> [k \in 1..Len(x.mask[b]) |->
                                 Times(Negate(Log(x.click_prop_[b][k])), x.mask[b][k])]],
              !.noclick_loss_ = [b \in 1..Len(x.mask) |-> [k \in 1..Len(x.mask[b]) |->
                                   Times(Negate(Log(OneMinus(x.noclick_prop_[b][k]))), x.mask[b][k])]],
              !.phase = "reduce"]

\* loss_ = tf.reduce_mean(click_loss_ + noclick_loss_); return loss_
AuxReduce(x) == [x EXCEPT !.loss_ = ReduceMean(x), !.phase = "done"]

InitBatch(cap, B, lengths) ==
    [phase |-> "call", hist_len_max |-> cap, B |-> B, lengths |-> lengths,
     rnn_outputs |-> SeqTensor("gru1", B, cap),
     concat_behavior |-> SeqTensor("behavior", B, cap),
     neg_concat_behavior |-> SeqTensor("negative", B, cap),
     h_states |-> <<>>, click_seq |-> <<>>, noclick_seq |-> <<>>, mask_arg |-> <<>>,
     mask |-> <<>>, click_input_ |-> <<>>, noclick_input_ |-> <<>>,
     click_prop_ |-> <<>>, noclick_prop_ |-> <<>>,
     click_loss_ |-> <<>>, noclick_loss_ |-> <<>>,
     loss_ |-> [sum |-> Fin(0), n |-> 0]]

\* The graph the batch is evaluated on: AUGRU with negative sampling.
LossRun == [i \in Runs |-> InitRun("interest_evolution", "AUGRU", "default", TRUE, "negA")]

InitLoss ==
    /\ run = LossRun
    /\ \E cap \in 1..MaxT, B \in 1..MaxB :
         \E lengths \in [1..B -> (0 - LenSlack)..(cap + LenSlack)] :
           batch = InitBatch(cap, B, lengths)

StepAuxCall == batch.phase = "call" /\ batch' = AuxCall(batch) /\ UNCHANGED run

StepAuxMask == batch.phase = "mask" /\ batch' = AuxMask(batch) /\ UNCHANGED run

StepAuxNet ==
    /\ batch.phase = "net"
    /\ \E bg \in Probs, hb \in 1..batch.B, hk \in 1..batch.hist_len_max, pc \in Probs, pn \in Probs :
         batch' = AuxNet(batch, bg, hb, hk, pc, pn)
    /\ UNCHANGED run

StepAuxTerms == batch.phase = "terms" /\ batch' = AuxTerms(batch) /\ UNCHANGED run

StepAuxReduce == batch.phase = "reduce" /\ batch' = AuxReduce(batch) /\ UNCHANGED run

NextLoss ==
    \/ StepAuxCall
    \/ StepAuxMask
    \/ StepAuxNet
    \/ StepAuxTerms
    \/ StepAuxReduce

SpecLoss == InitLoss /\ [][NextLoss]_vars

(***************************************************************************)
(* Claims about graph construction (specification Spec).                   *)
(***************************************************************************)
Finished(r) == r.pc \in {"returned", "raised"}

Kinds(r) == {r.layers[k].kind : k \in 1..Len(r.layers)}

CoreKinds == {"DynamicGRU", "AttentionSequencePoolingLayer", "batch_normalization", "dense"}

AttentionLayers(r) ==
    {r.layers[k] : k \in {n \in 1..Len(r.layers) :
                            r.layers[n].kind = "AttentionSequencePoolingLayer"}}

WeightedAuxLoss(r) == T("mul", <<Leaf("alpha"), r.aux_loss_1>>)

\* C1: with negative sampling on and any of the four valid variants, building the
\* model through DIEN succeeds and the auxiliary loss exists and is added to the
\* model's losses with weight alpha.
C1_AuxLossForEveryValidVariant ==
    \A i \in Runs :
      (/\ run[i].entry = "DIEN"
       /\ run[i].use_neg
       /\ run[i].gru_type \in ValidGruTypes
       /\ Finished(run[i]))
      => (/\ run[i].pc = "returned"
          /\ run[i].aux_loss_1 # NoneT
          /\ WeightedAuxLoss(run[i]) \in run[i].losses)

\* C2 as stated: a call with an unknown variant never returns, ends in the
\* ValueError, and has created no layer at all at any point, through either entry.
C2_UnknownVariantFailsBeforeAnyLayer ==
    \A i \in Runs :
      run[i].gru_type \notin ValidGruTypes
      => (/\ run[i].pc # "returned"
          /\ (run[i].pc = "raised" => run[i].err = "ValueError: gru_type error ")
          /\ run[i].layers = <<>>)

\* C2 amended: a call with an unknown variant never returns and ends in the
\* ValueError before any recurrent, attention or auxiliary layer exists; a direct
\* call of interest_evolution has created nothing, a call through DIEN has created
\* its Input and Embedding layers only.
C2_UnknownVariantFailsBeforeCoreLayers ==
    \A i \in Runs :
      run[i].gru_type \notin ValidGruTypes
      => (/\ run[i].pc # "returned"
          /\ (run[i].pc = "raised" => run[i].err = "ValueError: gru_type error ")
          /\ Kinds(run[i]) \cap CoreKinds = {}
          /\ (run[i].entry = "interest_evolution" => run[i].layers = <<>>)
          /\ (run[i].entry = "DIEN" => Kinds(run[i]) \subseteq {"Input", "Embedding"}))

\* C2's case: a call through DIEN with an unknown variant has raised the ValueError
\* with its Input and Embedding layers already created.
C2_Witness ==
    \E i \in Runs :
      /\ run[i].gru_type \notin ValidGruTypes
      /\ run[i].entry = "DIEN"
      /\ run[i].pc = "raised"
      /\ run[i].err = "ValueError: gru_type error "
      /\ Kinds(run[i]) = {"Input", "Embedding"}

\* C3: with use_neg set and no negative sequence passed, interest_evolution never
\* returns an InterestVector, whatever the valid variant.
C3_MissingNegativesNeverReturn ==
    \A i \in Runs :
      (/\ run[i].entry = "interest_evolution"
       /\ run[i].use_neg
       /\ run[i].neg_data = "None"
       /\ run[i].gru_type \in ValidGruTypes)
      => run[i].pc # "returned"

\* C4: two calls that differ only in use_neg and in the negative sequence compute
\* the same InterestVector: whenever both have set hist, the two are equal.
C4_AuxLossDoesNotInfluenceHist ==
    (run[1].hist # NoneT /\ run[2].hist # NoneT) => run[1].hist = run[2].hist

\* C4's case: both calls returned, one with an auxiliary loss and one without.
C4_Witness ==
    /\ run[1].pc = "returned"
    /\ run[2].pc = "returned"
    /\ run[1].aux_loss_1 # NoneT
    /\ run[2].aux_loss_1 = NoneT
    /\ ~run[2].use_neg
    /\ run[1].hist # NoneT
    /\ run[2].hist # NoneT

\* C5 as stated: for AGRU and AUGRU every attention scorer that is created has
\* weight normalization off.
C5_GateAttentionNeverNormalized ==
    \A i \in Runs :
      run[i].gru_type \in {"AGRU", "AUGRU"}
      => \A l \in AttentionLayers(run[i]) : l.weight_normalization = "False"

\* C5 amended: for AGRU and AUGRU the attention scorer runs with the configured
\* att_weight_normalization: the value passed, else the entry point's default,
\* which is on for DIEN and off for interest_evolution.
C5_GateAttentionFollowsFlag ==
    \A i \in Runs :
      run[i].gru_type \in {"AGRU", "AUGRU"}
      => \A l \in AttentionLayers(run[i]) :
           /\ l.returns = "score"
           /\ l.weight_normalization =
                (IF run[i].norm_arg # "default" THEN run[i].norm_arg
                 ELSE IF run[i].entry = "DIEN" THEN "True" ELSE "False")

\* C5's case: DIEN with its defaults and AUGRU has built a normalizing scorer.
C5_Witness ==
    \E i \in Runs :
      /\ run[i].gru_type = "AUGRU"
      /\ run[i].entry = "DIEN"
      /\ run[i].norm_arg = "default"
      /\ run[i].pc = "returned"
      /\ \E l \in AttentionLayers(run[i]) : l.weight_normalization = "True"

\* C6 as stated: the hidden states handed to the auxiliary loss are the output of
\* the second recurrent pass (gru2).
C6_AuxSupervisesStage2 ==
    \A i \in Runs :
      run[i].aux_loss_1 # NoneT => run[i].aux_loss_1.args[1].args[1].op = "gru2"

\* C6 amended: the hidden states handed to the auxiliary loss are the output of
\* the first recurrent pass (gru1) over the behaviour sequence, all steps but the last.
C6_AuxSupervisesStage1 ==
    \A i \in Runs :
      run[i].aux_loss_1 # NoneT
      => run[i].aux_loss_1.args[1] =
           T("[:, :-1, :]", <<T("gru1", <<run[i].concat_behavior, run[i].user_behavior_length>>)>>)

\* C6's case: an AUGRU call returned with an auxiliary loss and a gru2 final state.
C6_Witness ==
    \E i \in Runs :
      /\ run[i].pc = "returned"
      /\ run[i].gru_type = "AUGRU"
      /\ run[i].aux_loss_1 # NoneT
      /\ run[i].hist.op = "gru2"

(***************************************************************************)
(* Claims about the value of the auxiliary loss (specification SpecLoss).  *)
(***************************************************************************)
Examples == 1..batch.B

\* The transition indices i of the claims: 0 .. T-2.
Transitions == 0..(batch.hist_len_max - 2)

Clamp(v, lo, hi) == IF v < lo THEN lo ELSE IF v > hi THEN hi ELSE v

\* The (example, transition) pairs with i < ValidLength - 1.
ValidPairs == {p \in Examples \X Transitions : p[2] < batch.lengths[p[1]] - 1}

Evaluated == batch.phase \in {"terms", "reduce", "done"}

\* - log(pc) - log(1 - pn) in thousandths, where both logs are finite.
PairLoss(pc, pn) == (IF pc = 1 THEN 693 ELSE 0) + (IF pn = 1 THEN 693 ELSE 0)

RECURSIVE SumPairLoss(_)
SumPairLoss(pairs) ==
    IF pairs = {} THEN 0
    ELSE LET p == CHOOSE q \in pairs : TRUE
         IN  PairLoss(batch.click_prop_[p[1]][p[2] + 1], batch.noclick_prop_[p[1]][p[2] + 1])
             + SumPairLoss(pairs \ {p})

\* C7 as stated: the divisor of the mean is the number of valid pairs.
C7_MeanOverValidPairs ==
    batch.phase = "done" => batch.loss_.n = Cardinality(ValidPairs)

\* C7 amended: the mean is taken over all B * (T-1) positions, padded ones
\* included as zero terms: the divisor is B * (T-1) whatever the ValidLengths,
\* and a finite sum is the sum of the per-transition losses of the valid pairs.
C7_MeanOverAllPositions ==
    batch.phase = "done"
    => /\ batch.loss_.n = batch.B * (batch.hist_len_max - 1)
       /\ (batch.loss_.sum.kind = "finite"
           => batch.loss_.sum.v = SumPairLoss(ValidPairs))

\* C7's case: two examples, one of them without history: 2 valid pairs among
\* 4 positions, every classifier output 1/2 on the valid pairs, so the sum is
\* 4 * 0.693 and the mean divides it by 4, not by 2.
C7_Witness ==
    /\ batch.phase = "done"
    /\ batch.B = 2
    /\ batch.hist_len_max = 3
    /\ batch.lengths = <<3, 0>>
    /\ batch.loss_.sum = Fin(2772)
    /\ batch.loss_.n = 4
    /\ Cardinality(ValidPairs) = 2

\* C8: every value passed to a log is above 0 and the auxiliary loss is finite.
C8_LogTermsClamped ==
    /\ Evaluated
       => \A b \in Examples : \A k \in 1..Len(batch.click_prop_[b]) :
            /\ batch.click_prop_[b][k] > 0
            /\ OneMinus(batch.noclick_prop_[b][k]) > 0
    /\ batch.phase = "done" => batch.loss_.sum.kind = "finite"

\* The mask half of C9: entry i of the mask is 1 exactly when i < clamp(L, 0, T) - 1.
MaskMatchesClampedLength ==
    batch.phase \in {"net", "terms", "reduce", "done"}
    => \A b \in Examples : \A i \in Transitions :
         /\ batch.mask[b][i + 1] \in {0, 1}
         /\ (batch.mask[b][i + 1] = 1
             <=> i < Clamp(batch.lengths[b], 0, batch.hist_len_max) - 1)

\* The summed auxiliary loss of example b.
Contribution(b) ==
    SumSeq([k \in 1..Len(batch.click_loss_[b]) |->
              Plus(batch.click_loss_[b][k], batch.noclick_loss_[b][k])])

\* C9: for every integer ValidLength L the mask at index i is 1 exactly when
\* i < clamp(L, 0, T) - 1, and an example with L = 0 or L = 1 has an all-zero mask
\* and contributes zero to the summed auxiliary loss.
C9_MaskClampedAndShortExamplesAddZero ==
    /\ MaskMatchesClampedLength
    /\ batch.phase \in {"reduce", "done"}
       => \A b \in Examples :
            batch.lengths[b] \in {0, 1}
            => /\ \A i \in Transitions : batch.mask[b][i + 1] = 0
               /\ Contribution(b) = Fin(0)

\* C10: for every transition index i, the hidden state of step i is paired with the
\* behaviour item of step i+1 and with the negative item of step i+1, and a pair
\* whose mask is nonzero has i+1 < ValidLength when 0 <= ValidLength <= T.
C10_HiddenPairedWithNextItem ==
    Evaluated
    => \A b \in Examples :
         /\ Len(batch.click_input_[b]) = batch.hist_len_max - 1
         /\ Len(batch.noclick_input_[b]) = batch.hist_len_max - 1
         /\ \A i \in Transitions :
              /\ batch.click_input_[b][i + 1] =
                   [h |-> Elem("gru1", b, i), item |-> Elem("behavior", b, i + 1)]
              /\ batch.noclick_input_[b][i + 1] =
                   [h |-> Elem("gru1", b, i), item |-> Elem("negative", b, i + 1)]
              /\ (/\ batch.mask[b][i + 1] # 0
                  /\ 0 <= batch.lengths[b]
                  /\ batch.lengths[b] <= batch.hist_len_max)
                 => i + 1 < batch.lengths[b]

\* C10's case: an example of ValidLength 2 in a batch of capacity 3: one valid pair.
C10_Witness ==
    /\ batch.phase = "done"
    /\ batch.hist_len_max = 3
    /\ batch.lengths[1] = 2
    /\ batch.mask[1] = <<1, 0>>
    /\ batch.click_input_[1][1].item.step = 1

====
